---- MODULE Spec2Model ----
(***************************************************************************)
(* Model of notebooks/2_data_ingestion.ipynb: the image ingestion pipeline *)
(* (ray tasks dispatched chunk by chunk, process_image_data) followed by   *)
(* the text ingestion pipeline (process_text_data called in a plain loop). *)
(* File names are sequences of one-character strings so that Path.stem and *)
(* re.search are computed, not assumed.  Python's None is the empty tuple  *)
(* and a present value x is <<x>>.                                         *)
(***************************************************************************)
EXTENDS Integers, Sequences, FiniteSets, TLC

VARIABLES b64_image_file_list, n, pdf_txt_file_list,
          pc, image_chunks, chunk_index, erroneous_page_count,
          task, json_img_dir, img_writes, osi_img,
          txt_page_index, txt_pos, txt, txt_status,
          json_txt_dir, txt_writes, osi_text,
          gcc, extractor_outcomes

vars == <<b64_image_file_list, n, pdf_txt_file_list,
          pc, image_chunks, chunk_index, erroneous_page_count,
          task, json_img_dir, img_writes, osi_img,
          txt_page_index, txt_pos, txt, txt_status,
          json_txt_dir, txt_writes, osi_text,
          gcc, extractor_outcomes>>

imgVars == <<image_chunks, chunk_index, erroneous_page_count,
             task, json_img_dir, img_writes, osi_img>>
txtVars == <<txt_page_index, txt_pos, txt, txt_status,
             json_txt_dir, txt_writes, osi_text>>
inputVars == <<b64_image_file_list, n, pdf_txt_file_list, gcc, extractor_outcomes>>

(* ------------------------------ bounds -------------------------------- *)
MaxArtifacts == 3
MaxN == 2
MaxChunked == 5

(* --------------------------- basic helpers ---------------------------- *)
None == <<>>
Some(x) == <<x>>

Min(S) == CHOOSE x \in S : \A y \in S : x <= y
Max(S) == CHOOSE x \in S : \A y \in S : x >= y

Range(s) == {s[i] : i \in DOMAIN s}

InjectiveSeqs(S, k) ==
  {s \in UNION {[1..m -> S] : m \in 0..k} :
     \A i, j \in DOMAIN s : i # j => s[i] # s[j]}

RECURSIVE Concat(_)
Concat(ss) == IF ss = <<>> THEN <<>> ELSE Head(ss) \o Concat(Tail(ss))

(* ----------------------------- file names ----------------------------- *)
B64_EXTN == <<".", "b", "6", "4">>
IMAGE_FILE_EXTN == <<".", "j", "p", "g">>
TEXT_FILE_EXTN == <<".", "t", "x", "t">>

(* the image directory in the order glob.glob lists it; which of the pages *)
(* are present varies from run to run                                      *)
ImageDir ==
  << <<"p","a","g","e","_","1">> \o B64_EXTN,
     <<"i","m","g","3">> \o B64_EXTN,
     <<"p","a","g","e","_","1","2","_","3">> \o B64_EXTN >>

ImageLists(k) ==
  {SelectSeq(ImageDir, LAMBDA x : x \in T) :
     T \in {U \in SUBSET Range(ImageDir) : Cardinality(U) <= k}}

TextFiles ==
  { <<"t","e","x","t","_","1">> \o TEXT_FILE_EXTN,
    <<"t","e","x","t","_","2">> \o TEXT_FILE_EXTN,
    <<"t","e","x","t","_","3">> \o TEXT_FILE_EXTN,
    <<"n","o","t","e","s">> \o TEXT_FILE_EXTN }

(* Path(p).stem: the name without its last suffix *)
Stem(p) ==
  LET dots == {i \in 2..Len(p) : p[i] = "."}
  IN IF dots = {} THEN p ELSE SubSeq(p, 1, Max(dots) - 1)

DigitChars == <<"0","1","2","3","4","5","6","7","8","9">>
IsDigit(c) == c \in Range(DigitChars)
DigitValue(c) == (CHOOSE i \in DOMAIN DigitChars : DigitChars[i] = c) - 1

RECURSIVE DigitsToNat(_)
DigitsToNat(ds) ==
  IF ds = <<>> THEN 0
  ELSE 10 * DigitsToNat(SubSeq(ds, 1, Len(ds) - 1)) + DigitValue(ds[Len(ds)])

(* re.search(prefix + r"(\d+)_?", s): None, or <<group(1)>> of the leftmost *)
(* match, the digit group being greedy.                                     *)
re_search(prefix, s) ==
  LET m == Len(prefix)
      starts == {i \in 1..Len(s) :
                   /\ i + m <= Len(s)
                   /\ SubSeq(s, i, i + m - 1) = prefix
                   /\ IsDigit(s[i + m])}
  IN IF starts = {} THEN None
     ELSE LET b == Min(starts) + m
              e == Max({k \in b..Len(s) : \A j \in b..k : IsDigit(s[j])})
          IN Some(SubSeq(s, b, e))

PAGE_PREFIX == <<"p","a","g","e","_">>
TEXT_PREFIX == <<"t","e","x","t","_">>

(* ------------------------- chunking (cell 710) ------------------------ *)
(* list[a:b] for 0 <= a, Python slice semantics (b is clamped) *)
Slice(l, a, b) == SubSeq(l, a + 1, IF b < Len(l) THEN b ELSE Len(l))

ImageChunksAll(l, k) == IF l = <<>> THEN <<>> ELSE <<l>>

ImageChunksShort(l, k) ==
  [j \in 1..((Len(l) + k - 1) \div k) |-> Slice(l, (j - 1) * k, (j - 1) * k + k - 1)]

(* [l[i:i + k] for i in range(0, len(l), k)] *)
ImageChunks(l, k) ==
  [j \in 1..((Len(l) + k - 1) \div k) |-> Slice(l, (j - 1) * k, (j - 1) * k + k)]

(* ------------------------- remote collaborators ----------------------- *)
CallOutcomes == {"ok", "raise"}
EmbedOutcomes == {"embedding", "no_field", "raise"}

ENTITY_PROMPT == "entity_extraction_prompt"
DESC_PROMPT == "image_desc_prompt"

(* the answer of the model may also be the empty text *)
ExtractorOutcomes == {"ok", "empty", "raise"}

(* get_img_desc: resp_body['content'][0]['text'] of the answer to the      *)
(* prompt, returned as it is (line 497), or the call raises                *)
get_img_desc(file_path, prompt, o) ==
  IF o = "raise" THEN [raised |-> TRUE, value |-> <<>>]
  ELSE [raised |-> FALSE,
        value |-> IF o = "empty" THEN <<>>
                  ELSE IF prompt = ENTITY_PROMPT THEN <<"E">> ELSE <<"D">>]

get_img_txt_embeddings_raising(o) ==
  IF o = "raise" THEN [raised |-> TRUE, value |-> "None"]
  ELSE [raised |-> FALSE,
        value |-> IF o = "embedding" THEN "vector" ELSE "None"]

(* get_img_txt_embeddings: try/except around invoke_model, .get('embedding') *)
get_img_txt_embeddings(o) ==
  [raised |-> FALSE, value |-> IF o = "embedding" THEN "vector" ELSE "None"]

(* utils.get_text_embedding: same contract as get_img_txt_embeddings *)
get_text_embedding(o) ==
  [raised |-> FALSE, value |-> IF o = "embedding" THEN "vector" ELSE "None"]

write_text_lost(dir, fpath, content) == dir

(* Path(fpath).write_text(content): create or overwrite the file *)
write_text(dir, fpath, content) ==
  [p \in DOMAIN dir \cup {fpath} |-> IF p = fpath THEN content ELSE dir[p]]

requests_request_twice(log, body, o) ==
  log \o <<[body |-> body, outcome |-> o], [body |-> body, outcome |-> o]>>

(* requests.request(method='POST', ...): one request, returns or raises *)
requests_request(log, body, o) == Append(log, [body |-> body, outcome |-> o])

(* --------------------- get_continuous_chunks -------------------------- *)
(* An element of ne_chunk's result: a named-entity subtree with its leaf   *)
(* tokens, or a plain (token, pos) pair.  A string is the sequence of its  *)
(* space-separated tokens, so " ".join is the concatenation.               *)
NeTree(leaves) == [tree |-> TRUE, leaves |-> leaves]
Word(w) == [tree |-> FALSE, leaves |-> <<w>>]

ChunkItems ==
  {NeTree(<<"A">>), NeTree(<<"B">>), NeTree(<<"C">>), NeTree(<<"A", "B">>), Word("w")}

ChunkedInputs == UNION {[1..m -> ChunkItems] : m \in 0..MaxChunked}

JoinSpace(ss) == Concat(ss)

GccIdle ==
  [chunked |-> <<>>, i |-> 1, continuous_chunk |-> <<>>, current_chunk |-> <<>>,
   ret |-> None, prev |-> None, runs |-> 0]

(* line 801-810: one iteration of "for i in chunked" *)
GccBody(g, item) ==
  LET cur == IF item.tree THEN Append(g.current_chunk, JoinSpace(<<item.leaves>>))
             ELSE g.current_chunk
      named_entity == JoinSpace(cur)
  IN IF cur # <<>> /\ named_entity \notin Range(g.continuous_chunk)
     THEN [g EXCEPT !.continuous_chunk = Append(@, named_entity),
                    !.current_chunk = <<>>]
     ELSE [g EXCEPT !.current_chunk = cur]

(* ------------------------------ Init ---------------------------------- *)
NewTask ==
  [pc |-> "unstarted", entities_extracted |-> None,
   content_description |-> None, embedding |-> "unset",
   data |-> None, json_data |-> None, err |-> "none",
   calls |-> <<>>, prompt_data |-> None]

NoTxt ==
  [file |-> None, extracted_pdf_text |-> None, entities_str |-> None,
   embedding |-> "unset", data |-> None, json_data |-> None]

EmptyDir == [p \in {} |-> None]

(* the run of the notebook on the files of the two directories *)
InitRun ==
  /\ b64_image_file_list \in ImageLists(MaxArtifacts)
  /\ pdf_txt_file_list \in InjectiveSeqs(TextFiles, MaxArtifacts)
  /\ Len(b64_image_file_list) + Len(pdf_txt_file_list) <= MaxArtifacts
  /\ n \in 1..MaxN
  /\ pc = "image_chunks"
  /\ image_chunks = <<>>
  /\ chunk_index = 1
  /\ erroneous_page_count = 0
  /\ task = [f \in Range(b64_image_file_list) |-> NewTask]
  /\ json_img_dir = EmptyDir
  /\ img_writes = [f \in Range(b64_image_file_list) |-> 0]
  /\ osi_img = [f \in Range(b64_image_file_list) |-> <<>>]
  /\ txt_page_index = 1
  /\ txt_pos = 1
  /\ txt = NoTxt
  /\ txt_status = [f \in Range(pdf_txt_file_list) |-> [st |-> "pending", err |-> "none"]]
  /\ json_txt_dir = EmptyDir
  /\ txt_writes = [f \in Range(pdf_txt_file_list) |-> 0]
  /\ osi_text = [f \in Range(pdf_txt_file_list) |-> <<>>]
  /\ gcc = GccIdle

(* the model service answers every prompt with a text, or the call raises *)
Init == InitRun /\ extractor_outcomes = CallOutcomes

(* the model service may also answer with the empty text *)
InitEmpty == InitRun /\ extractor_outcomes = ExtractorOutcomes

(* ------------------- image pipeline: the chunk loop ------------------- *)
Terminated == {"returned", "raised"}

RayGetReadyAny(refs) == \E f \in refs : task[f].pc \in Terminated

(* ray.get([...]) blocks until every object of the list is available *)
RayGetReady(refs) == \A f \in refs : task[f].pc \in Terminated

(* cell 710-716 *)
SetupImageChunks ==
  /\ pc = "image_chunks"
  /\ image_chunks' = ImageChunks(b64_image_file_list, n)
  /\ erroneous_page_count' = 0
  /\ chunk_index' = 1
  /\ pc' = IF Len(image_chunks') = 0 THEN "img_summary" ELSE "dispatch"
  /\ UNCHANGED <<inputVars, task, json_img_dir, img_writes, osi_img, txtVars>>

(* line 723: one async_process_image_data.remote(...) per file of the chunk *)
Dispatch ==
  /\ pc = "dispatch"
  /\ task' = [f \in DOMAIN task |->
                IF f \in Range(image_chunks[chunk_index])
                THEN [task[f] EXCEPT !.pc = "client"] ELSE task[f]]
  /\ pc' = "ray_get"
  /\ UNCHANGED <<inputVars, image_chunks, chunk_index, erroneous_page_count,
                 json_img_dir, img_writes, osi_img, txtVars>>

NextChunk ==
  /\ chunk_index' = chunk_index + 1
  /\ pc' = IF chunk_index < Len(image_chunks) THEN "dispatch" ELSE "img_summary"

(* line 723-725: ray.get returns the results of the chunk *)
RayGetReturn ==
  /\ pc = "ray_get"
  /\ RayGetReady(Range(image_chunks[chunk_index]))
  /\ ~ \E f \in Range(image_chunks[chunk_index]) : task[f].pc = "raised"
  /\ NextChunk
  /\ UNCHANGED <<inputVars, image_chunks, erroneous_page_count,
                 task, json_img_dir, img_writes, osi_img, txtVars>>

(* line 726-728: ray.get re-raises a task's exception *)
RayGetRaise ==
  /\ pc = "ray_get"
  /\ RayGetReady(Range(image_chunks[chunk_index]))
  /\ \E f \in Range(image_chunks[chunk_index]) : task[f].pc = "raised"
  /\ erroneous_page_count' = erroneous_page_count + Len(image_chunks[chunk_index])
  /\ NextChunk
  /\ UNCHANGED <<inputVars, image_chunks,
                 task, json_img_dir, img_writes, osi_img, txtVars>>

(* line 730, then cells 751-755 and 876-877 *)
ImgSummary ==
  /\ pc = "img_summary"
  /\ pc' = "txt_loop"
  /\ txt_page_index' = 1
  /\ txt_pos' = 1
  /\ UNCHANGED <<inputVars, imgVars, txt, txt_status,
                 json_txt_dir, txt_writes, osi_text>>

(* ----------------- image pipeline: process_image_data ----------------- *)
S3_IMG_PREFIX == <<"s3://bucket/img/">>
S3_TEXT_PREFIX == <<"s3://bucket/text/">>

ProcessImageExceptKeep(t, stage) ==
  [t EXCEPT !.pc = "returned", !.err = stage]

ProcessImageExceptRetry(t, stage) ==
  [t EXCEPT !.pc = "entities", !.json_data = None, !.err = stage]

ProcessImageExceptReraise(t, stage) ==
  [t EXCEPT !.pc = "raised", !.json_data = None, !.err = stage]

(* line 678-681: except Exception: log, json_data = None; return json_data *)
ProcessImageExcept(t, stage) ==
  [t EXCEPT !.pc = "returned", !.json_data = None, !.err = stage]

ImgUnchanged ==
  UNCHANGED <<inputVars, pc, image_chunks, chunk_index, erroneous_page_count, txtVars>>

(* line 695-696, 632: the statements of the task that are outside the try *)
TaskClient(f) ==
  /\ task[f].pc = "client"
  /\ \E o \in CallOutcomes :
       task' = [task EXCEPT ![f] =
                  IF o = "raise" THEN [@ EXCEPT !.pc = "raised", !.err = "client"]
                  ELSE [@ EXCEPT !.pc = "entities"]]
  /\ UNCHANGED <<json_img_dir, img_writes, osi_img>>
  /\ ImgUnchanged

ContentDescriptionSwapped(entities_extracted, desc) == desc \o entities_extracted

(* line 641: entities_extracted + get_img_desc(...) *)
ContentDescription(entities_extracted, desc) == entities_extracted \o desc

(* line 639 *)
TaskEntities(f) ==
  /\ task[f].pc = "entities"
  /\ \E o \in extractor_outcomes :
       LET r == get_img_desc(f, ENTITY_PROMPT, o)
           t == [task[f] EXCEPT !.calls = Append(@, [prompt |-> ENTITY_PROMPT, r |-> r])]
       IN task' = [task EXCEPT ![f] =
                     IF r.raised THEN ProcessImageExcept(t, "extract")
                     ELSE [t EXCEPT !.pc = "desc",
                                    !.entities_extracted = Some(r.value)]]
  /\ UNCHANGED <<json_img_dir, img_writes, osi_img>>
  /\ ImgUnchanged

(* line 641 *)
TaskDesc(f) ==
  /\ task[f].pc = "desc"
  /\ \E o \in extractor_outcomes :
       LET r == get_img_desc(f, DESC_PROMPT, o)
           t == [task[f] EXCEPT !.calls = Append(@, [prompt |-> DESC_PROMPT, r |-> r])]
       IN task' = [task EXCEPT ![f] =
                     IF r.raised THEN ProcessImageExcept(t, "extract")
                     ELSE [t EXCEPT !.pc = "embed",
                                    !.content_description =
                                       Some(ContentDescription(t.entities_extracted[1],
                                                               r.value))]]
  /\ UNCHANGED <<json_img_dir, img_writes, osi_img>>
  /\ ImgUnchanged

(* line 643 *)
TaskEmbed(f) ==
  /\ task[f].pc = "embed"
  /\ \E o \in EmbedOutcomes :
       LET r == get_img_txt_embeddings(o)
           t == [task[f] EXCEPT !.prompt_data = task[f].content_description]
       IN task' = [task EXCEPT ![f] =
                     IF r.raised THEN ProcessImageExcept(t, "embed")
                     ELSE [t EXCEPT !.pc = "assemble", !.embedding = r.value]]
  /\ UNCHANGED <<json_img_dir, img_writes, osi_img>>
  /\ ImgUnchanged

ImgObjName(f) == Stem(f) \o IMAGE_FILE_EXTN

(* line 644-664: data and json_data; .group(1) of a failed search raises *)
TaskAssemble(f) ==
  /\ task[f].pc = "assemble"
  /\ LET obj_name == ImgObjName(f)
         m == re_search(PAGE_PREFIX, obj_name)
         t == task[f]
     IN task' = [task EXCEPT ![f] =
          IF m = None THEN ProcessImageExcept(@, "assemble")
          ELSE [@ EXCEPT
                 !.pc = "persist",
                 !.data = Some([file_path |-> S3_IMG_PREFIX \o obj_name,
                                file_text |-> t.content_description[1],
                                page_number |-> [type |-> "str", v |-> m[1]],
                                metadata |-> [filename |-> obj_name,
                                              entities |-> t.entities_extracted[1]],
                                vector_embedding |-> t.embedding]),
                 !.json_data = Some([file_type |-> IMAGE_FILE_EXTN,
                                     file_name |-> obj_name,
                                     text |-> t.content_description[1],
                                     entities |-> t.entities_extracted[1],
                                     page_number |-> [type |-> "str", v |-> m[1]]])]]
  /\ UNCHANGED <<json_img_dir, img_writes, osi_img>>
  /\ ImgUnchanged

JsonPathShared(f) == <<"r", "e", "c", "o", "r", "d", ".", "j", "s", "o", "n">>

(* line 668 and 854: f"{Path(file).stem}.json" in the audit directory *)
JsonPath(f) == Stem(f) \o <<".", "j", "s", "o", "n">>

(* line 667-670: os.makedirs, Path(fpath).write_text *)
TaskPersist(f) ==
  /\ task[f].pc = "persist"
  /\ \E o \in CallOutcomes :
       IF o = "raise"
       THEN /\ task' = [task EXCEPT ![f] = ProcessImageExcept(@, "persist")]
            /\ UNCHANGED <<json_img_dir, img_writes>>
       ELSE /\ json_img_dir' = write_text(json_img_dir, JsonPath(f), task[f].json_data[1])
            /\ img_writes' = [img_writes EXCEPT ![f] = @ + 1]
            /\ task' = [task EXCEPT ![f].pc = "ingest"]
  /\ UNCHANGED osi_img
  /\ ImgUnchanged

(* line 671-677 *)
TaskIngest(f) ==
  /\ task[f].pc = "ingest"
  /\ \E o \in CallOutcomes :
       /\ osi_img' = [osi_img EXCEPT ![f] = requests_request(@, task[f].data[1], o)]
       /\ task' = [task EXCEPT ![f] =
                     IF o = "raise" THEN ProcessImageExcept(@, "ingest")
                     ELSE [@ EXCEPT !.pc = "returned"]]
  /\ UNCHANGED <<json_img_dir, img_writes>>
  /\ ImgUnchanged

(* ------------------ text pipeline: process_text_data ------------------ *)
TxtUnchanged == UNCHANGED <<inputVars, imgVars>>

CurTxt == pdf_txt_file_list[txt_pos]

(* an exception leaves process_text_data and the loop of cell 876-881 *)
TxtRaise(stage) ==
  /\ pc' = "aborted"
  /\ txt_status' = [txt_status EXCEPT ![CurTxt] = [st |-> "raised", err |-> stage]]

(* line 878-880: next file of the list, or the loop is over *)
TxtLoop ==
  /\ pc = "txt_loop"
  /\ IF txt_pos <= Len(pdf_txt_file_list)
     THEN /\ pc' = "t_read"
          /\ txt' = [NoTxt EXCEPT !.file = Some(CurTxt)]
          /\ txt_status' = [txt_status EXCEPT ![CurTxt].st = "running"]
     ELSE /\ pc' = "done"
          /\ UNCHANGED <<txt, txt_status>>
  /\ UNCHANGED <<txt_page_index, txt_pos, json_txt_dir, txt_writes, osi_text>>
  /\ TxtUnchanged

(* line 824-825 *)
TxtRead ==
  /\ pc = "t_read"
  /\ \E o \in CallOutcomes :
       IF o = "raise" THEN TxtRaise("read") /\ UNCHANGED txt
       ELSE /\ pc' = "t_entities"
            /\ txt' = [txt EXCEPT !.extracted_pdf_text = Some(<<"T">>)]
            /\ UNCHANGED txt_status
  /\ UNCHANGED <<txt_page_index, txt_pos, json_txt_dir, txt_writes, osi_text>>
  /\ TxtUnchanged

(* line 827-829 *)
TxtEntities ==
  /\ pc = "t_entities"
  /\ \E o \in CallOutcomes :
       IF o = "raise" THEN TxtRaise("extract") /\ UNCHANGED txt
       ELSE /\ pc' = "t_embed"
            /\ txt' = [txt EXCEPT !.entities_str = Some(<<"E">>)]
            /\ UNCHANGED txt_status
  /\ UNCHANGED <<txt_page_index, txt_pos, json_txt_dir, txt_writes, osi_text>>
  /\ TxtUnchanged

(* line 831 *)
TxtEmbed ==
  /\ pc = "t_embed"
  /\ \E o \in EmbedOutcomes :
       LET r == get_text_embedding(o)
       IN IF r.raised THEN TxtRaise("embed") /\ UNCHANGED txt
          ELSE /\ pc' = "t_assemble"
               /\ txt' = [txt EXCEPT !.embedding = r.value]
               /\ UNCHANGED txt_status
  /\ UNCHANGED <<txt_page_index, txt_pos, json_txt_dir, txt_writes, osi_text>>
  /\ TxtUnchanged

TxtObjName(f) == Stem(f) \o TEXT_FILE_EXTN

(* line 832-852 *)
TxtAssemble ==
  /\ pc = "t_assemble"
  /\ LET obj_name == TxtObjName(CurTxt)
         m == re_search(TEXT_PREFIX, obj_name)
     IN IF m = None THEN TxtRaise("assemble") /\ UNCHANGED txt
        ELSE /\ pc' = "t_persist"
             /\ txt' = [txt EXCEPT
                  !.data = Some([file_path |-> S3_TEXT_PREFIX \o obj_name,
                                 file_text |-> txt.extracted_pdf_text[1],
                                 page_number |-> [type |-> "int", v |-> txt_page_index],
                                 metadata |-> [filename |-> obj_name,
                                               entities |-> txt.entities_str[1]],
                                 vector_embedding |-> txt.embedding]),
                  !.json_data = Some([file_type |-> TEXT_FILE_EXTN,
                                      file_name |-> Stem(CurTxt),
                                      text |-> txt.extracted_pdf_text[1],
                                      page_number |-> [type |-> "str", v |-> m[1]],
                                      entities |-> txt.entities_str[1]])]
             /\ UNCHANGED txt_status
  /\ UNCHANGED <<txt_page_index, txt_pos, json_txt_dir, txt_writes, osi_text>>
  /\ TxtUnchanged

(* line 853-856 *)
TxtPersist ==
  /\ pc = "t_persist"
  /\ \E o \in CallOutcomes :
       IF o = "raise"
       THEN TxtRaise("persist") /\ UNCHANGED <<json_txt_dir, txt_writes>>
       ELSE /\ json_txt_dir' = write_text(json_txt_dir, JsonPath(CurTxt), txt.json_data[1])
            /\ txt_writes' = [txt_writes EXCEPT ![CurTxt] = @ + 1]
            /\ pc' = "t_ingest"
            /\ UNCHANGED txt_status
  /\ UNCHANGED <<txt_page_index, txt_pos, txt, osi_text>>
  /\ TxtUnchanged

(* line 857-864, then line 881 *)
TxtIngest ==
  /\ pc = "t_ingest"
  /\ \E o \in CallOutcomes :
       /\ osi_text' = [osi_text EXCEPT ![CurTxt] = requests_request(@, txt.data[1], o)]
       /\ IF o = "raise"
          THEN TxtRaise("ingest") /\ UNCHANGED <<txt, txt_page_index, txt_pos>>
          ELSE /\ pc' = "txt_loop"
               /\ txt_status' = [txt_status EXCEPT ![CurTxt].st = "returned"]
               /\ txt' = NoTxt
               /\ txt_page_index' = txt_page_index + 1
               /\ txt_pos' = txt_pos + 1
  /\ UNCHANGED <<json_txt_dir, txt_writes>>
  /\ TxtUnchanged

(* --------------------------- specification ---------------------------- *)
Next ==
  \/ SetupImageChunks
  \/ Dispatch
  \/ RayGetReturn
  \/ RayGetRaise
  \/ ImgSummary
  \/ \E f \in DOMAIN task : TaskClient(f)
  \/ \E f \in DOMAIN task : TaskEntities(f)
  \/ \E f \in DOMAIN task : TaskDesc(f)
  \/ \E f \in DOMAIN task : TaskEmbed(f)
  \/ \E f \in DOMAIN task : TaskAssemble(f)
  \/ \E f \in DOMAIN task : TaskPersist(f)
  \/ \E f \in DOMAIN task : TaskIngest(f)
  \/ TxtLoop
  \/ TxtRead
  \/ TxtEntities
  \/ TxtEmbed
  \/ TxtAssemble
  \/ TxtPersist
  \/ TxtIngest

Spec == Init /\ [][Next]_vars

SpecEmpty == InitEmpty /\ [][Next]_vars

(* the notebook's own thread: the chunk loop and the text loop *)
DriverStep ==
  \/ SetupImageChunks \/ Dispatch \/ RayGetReturn \/ RayGetRaise \/ ImgSummary
  \/ TxtLoop \/ TxtRead \/ TxtEntities \/ TxtEmbed \/ TxtAssemble
  \/ TxtPersist \/ TxtIngest

(* the ray task of one image file *)
TaskStep(f) ==
  /\ f \in DOMAIN task
  /\ \/ TaskClient(f) \/ TaskEntities(f) \/ TaskDesc(f) \/ TaskEmbed(f)
     \/ TaskAssemble(f) \/ TaskPersist(f) \/ TaskIngest(f)

(* every call returns or raises: the driver and every started task go on *)
SpecLive ==
  /\ Init
  /\ [][Next]_vars
  /\ WF_vars(DriverStep)
  /\ \A f \in Range(ImageDir) : WF_vars(TaskStep(f))

(* ------------- get_continuous_chunks run on its own ------------------- *)
progVars ==
  <<b64_image_file_list, n, pdf_txt_file_list, extractor_outcomes, pc, imgVars, txtVars>>

InitChunks ==
  /\ b64_image_file_list = <<>>
  /\ pdf_txt_file_list = <<>>
  /\ n = 1
  /\ pc = "get_continuous_chunks"
  /\ image_chunks = <<>>
  /\ chunk_index = 1
  /\ erroneous_page_count = 0
  /\ task = [f \in {} |-> NewTask]
  /\ json_img_dir = EmptyDir
  /\ img_writes = [f \in {} |-> 0]
  /\ osi_img = [f \in {} |-> <<>>]
  /\ txt_page_index = 1
  /\ txt_pos = 1
  /\ txt = NoTxt
  /\ txt_status = [f \in {} |-> [st |-> "pending", err |-> "none"]]
  /\ json_txt_dir = EmptyDir
  /\ txt_writes = [f \in {} |-> 0]
  /\ osi_text = [f \in {} |-> <<>>]
  /\ extractor_outcomes = CallOutcomes
  /\ gcc \in {[GccIdle EXCEPT !.chunked = c] : c \in ChunkedInputs}

(* line 801: the next element of chunked *)
GccIter ==
  /\ pc = "get_continuous_chunks"
  /\ gcc.ret = None
  /\ gcc.i <= Len(gcc.chunked)
  /\ gcc' = [GccBody(gcc, gcc.chunked[gcc.i]) EXCEPT !.i = gcc.i + 1]
  /\ UNCHANGED progVars

(* line 811 *)
GccReturn ==
  /\ pc = "get_continuous_chunks"
  /\ gcc.ret = None
  /\ gcc.i > Len(gcc.chunked)
  /\ gcc' = [gcc EXCEPT !.ret = Some(gcc.continuous_chunk), !.runs = @ + 1]
  /\ UNCHANGED progVars

(* line 799-800 of a second call on the same text *)
GccCallAgain ==
  /\ pc = "get_continuous_chunks"
  /\ gcc.ret # None
  /\ gcc.runs = 1
  /\ gcc' = [gcc EXCEPT !.prev = gcc.ret, !.ret = None, !.i = 1,
                        !.continuous_chunk = <<>>, !.current_chunk = <<>>]
  /\ UNCHANGED progVars

NextChunks == GccIter \/ GccReturn \/ GccCallAgain

SpecChunks == InitChunks /\ [][NextChunks]_vars

(* ===================== properties of the pipelines ==================== *)
ImgFiles == Range(b64_image_file_list)
TxtFiles == Range(pdf_txt_file_list)

StageErrs == {"extract", "embed", "assemble", "persist", "ingest"}

ImgLoopOver == pc \notin {"image_chunks", "dispatch", "ray_get"}
RunOver == pc \in {"done", "aborted"}

Committed(f) == task[f].pc = "returned" /\ task[f].err = "none"
StageFailed(f) == task[f].pc \in Terminated /\ task[f].err \in StageErrs

ChunkOf(f) == CHOOSE j \in DOMAIN image_chunks : f \in Range(image_chunks[j])

PageValue(p) == IF p.type = "int" THEN p.v ELSE DigitsToNat(p.v)

ImgMatches(f) == re_search(PAGE_PREFIX, ImgObjName(f)) # None
TxtMatches(f) == re_search(TEXT_PREFIX, TxtObjName(f)) # None

(* C1: when exactly one image artifact raised in a stage and all the others *)
(* succeeded, the count logged after the chunk loop is 1 and n-1 records    *)
(* are committed.                                                           *)
C1_FaultIsolationCount ==
  (/\ ImgLoopOver
   /\ Cardinality({f \in ImgFiles : StageFailed(f)}) = 1
   /\ \A f \in ImgFiles : StageFailed(f) \/ Committed(f))
  => /\ erroneous_page_count = 1
     /\ Cardinality({f \in ImgFiles : Committed(f)}) = Len(b64_image_file_list) - 1

(* C2: an exception of a stage is caught inside the task (the task returns, *)
(* it never raises), and when the chunk loop is over every artifact of      *)
(* every chunk has run its task to the end, whatever its siblings did.      *)
C2_SiblingIsolation ==
  /\ \A f \in ImgFiles : task[f].err \in StageErrs => task[f].pc = "returned"
  /\ ImgLoopOver => \A f \in ImgFiles : task[f].pc \in Terminated
  /\ \A f \in ImgFiles :
       Committed(f) => /\ JsonPath(f) \in DOMAIN json_img_dir
                       /\ Len(osi_img[f]) >= 1

C2_Witness ==
  /\ ImgLoopOver
  /\ \E f, g, h \in ImgFiles :
       /\ ChunkOf(f) = ChunkOf(h) /\ f # h /\ ChunkOf(f) < ChunkOf(g)
       /\ StageFailed(f) /\ Committed(h) /\ Committed(g)

(* C3: a text artifact that raises does not abort the run, and the later    *)
(* text artifacts are still processed.                                      *)
C3_TextFaultIsolation ==
  /\ (\E f \in TxtFiles : txt_status[f].st = "raised") => pc # "aborted"
  /\ RunOver => \A f \in TxtFiles : txt_status[f].st \in {"returned", "raised"}

C5_BatchPartitioning ==
  pc # "image_chunks" =>
    /\ Concat(image_chunks) = b64_image_file_list
    /\ \A j \in DOMAIN image_chunks :
         /\ Len(image_chunks[j]) >= 1
         /\ Len(image_chunks[j]) <= n
         /\ j < Len(image_chunks) => Len(image_chunks[j]) = n

C5_Witness ==
  /\ pc # "image_chunks"
  /\ Len(image_chunks) = 2
  /\ Len(image_chunks[1]) = 2
  /\ Len(image_chunks[2]) = 1

(* C6: a failed embedding call gives the None embedding without raising;    *)
(* the record is assembled with vector_embedding None, written to the audit *)
(* store and POSTed, and the artifact is not failed by the embedding step.  *)
C6_EmbeddingUnavailable ==
  \A f \in ImgFiles :
    /\ task[f].err # "embed"
    /\ task[f].embedding = "None" =>
         /\ task[f].pc \in {"persist", "ingest"} =>
              task[f].data[1].vector_embedding = "None"
         /\ task[f].pc = "ingest" => JsonPath(f) \in DOMAIN json_img_dir
         /\ (task[f].pc = "returned" /\ task[f].err \in {"none", "ingest"}) =>
              /\ JsonPath(f) \in DOMAIN json_img_dir
              /\ Len(osi_img[f]) = 1
              /\ osi_img[f][1].body.vector_embedding = "None"
         /\ (task[f].pc = "returned" /\ task[f].err = "none") =>
              task[f].json_data # None

C6_Witness ==
  \E f \in ImgFiles :
    /\ task[f].embedding = "None"
    /\ Committed(f)
    /\ osi_img[f][1].body.vector_embedding = "None"

(* C7: once the POST of an artifact has been made, whether it returned or   *)
(* raised, the audit file of that artifact exists (image and text).         *)
C7_AuditIndependentOfIngest ==
  /\ \A f \in ImgFiles :
       (task[f].pc = "ingest" \/ Len(osi_img[f]) >= 1)
         => JsonPath(f) \in DOMAIN json_img_dir
  /\ \A f \in TxtFiles :
       ((pc = "t_ingest" /\ txt.file = Some(f)) \/ Len(osi_text[f]) >= 1)
         => JsonPath(f) \in DOMAIN json_txt_dir

C7_Witness ==
  /\ \E f \in ImgFiles :
       /\ Len(osi_img[f]) = 1 /\ osi_img[f][1].outcome = "raise"
       /\ JsonPath(f) \in DOMAIN json_img_dir
  /\ \E f \in TxtFiles :
       /\ Len(osi_text[f]) = 1 /\ osi_text[f][1].outcome = "raise"
       /\ JsonPath(f) \in DOMAIN json_txt_dir

(* C8: an artifact causes at most one POST and at most one audit write, a   *)
(* successful one exactly one of each; when all n artifacts of a pipeline   *)
(* succeeded there are n audit files and n POSTs.                           *)
C8_ExactlyOnce ==
  /\ \A f \in ImgFiles :
       /\ Len(osi_img[f]) <= 1 /\ img_writes[f] <= 1
       /\ Committed(f) => Len(osi_img[f]) = 1 /\ img_writes[f] = 1
  /\ \A f \in TxtFiles :
       /\ Len(osi_text[f]) <= 1 /\ txt_writes[f] <= 1
       /\ txt_status[f].st = "returned" => Len(osi_text[f]) = 1 /\ txt_writes[f] = 1
  /\ (ImgLoopOver /\ \A f \in ImgFiles : Committed(f)) =>
       /\ Cardinality(DOMAIN json_img_dir) = Len(b64_image_file_list)
       /\ Cardinality({f \in ImgFiles : Len(osi_img[f]) = 1}) = Len(b64_image_file_list)
  /\ (pc = "done" /\ \A f \in TxtFiles : txt_status[f].st = "returned") =>
       /\ Cardinality(DOMAIN json_txt_dir) = Len(pdf_txt_file_list)
       /\ Cardinality({f \in TxtFiles : Len(osi_text[f]) = 1}) = Len(pdf_txt_file_list)

C8_Witness ==
  /\ pc = "done"
  /\ Len(pdf_txt_file_list) = 3
  /\ \A f \in TxtFiles : txt_status[f].st = "returned"
  /\ Cardinality(DOMAIN json_txt_dir) = 3

(* C9: the page_number of every POSTed record is the digit group of the     *)
(* artifact's own file name.                                                *)
C9_PageNumberFromFilename ==
  /\ \A f \in ImgFiles : \A i \in DOMAIN osi_img[f] :
       ImgMatches(f) =>
         PageValue(osi_img[f][i].body.page_number)
           = DigitsToNat(re_search(PAGE_PREFIX, ImgObjName(f))[1])
  /\ \A f \in TxtFiles : \A i \in DOMAIN osi_text[f] :
       TxtMatches(f) =>
         PageValue(osi_text[f][i].body.page_number)
           = DigitsToNat(re_search(TEXT_PREFIX, TxtObjName(f))[1])

(* C10: an artifact whose file name has no page number gets no audit file   *)
(* and no POST, its failure is not an uncaught exception, and at the end    *)
(* of the run every other artifact has been processed.                      *)
C10_AssemblyFailureLocal ==
  /\ \A f \in ImgFiles : ~ ImgMatches(f) =>
       /\ JsonPath(f) \notin DOMAIN json_img_dir
       /\ osi_img[f] = <<>>
       /\ task[f].pc # "raised" \/ task[f].err = "client"
  /\ \A f \in TxtFiles : ~ TxtMatches(f) =>
       /\ JsonPath(f) \notin DOMAIN json_txt_dir
       /\ osi_text[f] = <<>>
       /\ txt_status[f].err = "assemble" =>
            /\ pc # "aborted"
            /\ pc = "done" => \A g \in TxtFiles : txt_status[g].st # "pending"

(* C12: an image artifact for which one of the two generative calls        *)
(* returned the empty text has failed extraction: no embedding call, no     *)
(* audit file and no POST are made for it, and its task ends as a failure   *)
(* of the extraction stage.                                                 *)
EmptyResponse(f) ==
  \E i \in DOMAIN task[f].calls :
    ~ task[f].calls[i].r.raised /\ task[f].calls[i].r.value = <<>>

C12_EmptyResponseFails ==
  \A f \in ImgFiles :
    EmptyResponse(f) =>
      /\ task[f].prompt_data = None
      /\ JsonPath(f) \notin DOMAIN json_img_dir
      /\ osi_img[f] = <<>>
      /\ task[f].pc = "returned" => task[f].err = "extract"

(* the steps of one artifact in program order, and the stage of the         *)
(* per-artifact state machine each step belongs to                          *)
ImgSteps ==
  <<"unstarted", "client", "entities", "desc", "embed", "assemble", "persist", "ingest">>

TerminalRank == Len(ImgSteps)

ImgRank(t) ==
  IF t.pc \in Terminated THEN TerminalRank
  ELSE (CHOOSE i \in DOMAIN ImgSteps : ImgSteps[i] = t.pc) - 1

TxtRank(st, p) ==
  CASE st = "pending" -> 0
    [] st \in {"returned", "raised"} -> TerminalRank
    [] st = "running" ->
         CASE p = "t_read" -> 1
           [] p = "t_entities" -> 2
           [] p = "t_embed" -> 4
           [] p = "t_assemble" -> 5
           [] p = "t_persist" -> 6
           [] p = "t_ingest" -> 7

(* 0 Pending, 1 Extracting, 2 Embedding, 3 Assembling, 4 Ingesting,         *)
(* 5 Committed or Failed                                                    *)
StageOf(rank) ==
  CASE rank = 0 -> 0
    [] rank \in 1..3 -> 1
    [] rank = 4 -> 2
    [] rank = 5 -> 3
    [] rank \in 6..7 -> 4
    [] rank = TerminalRank -> 5

StageStep(a, b) ==
  /\ b >= a
  /\ \/ StageOf(b) = StageOf(a)
     \/ StageOf(b) = StageOf(a) + 1
     \/ (StageOf(a) >= 1 /\ StageOf(b) = 5)

(* C13: every artifact goes through the stages in the order Pending,        *)
(* Extracting, Embedding, Assembling, Ingesting, Committed or Failed; every *)
(* step of the program is taken at most once for an artifact (a step moves  *)
(* the artifact forward, never back and never twice), each remote call is   *)
(* made at most once, and a Committed or Failed artifact never changes.     *)
C13_Step ==
  /\ \A f \in ImgFiles :
       LET a == ImgRank(task[f])
           b == ImgRank(task'[f])
       IN /\ StageStep(a, b)
          /\ b = a => task'[f] = task[f]
          /\ Len(task'[f].calls) <= 2
          /\ Len(osi_img'[f]) <= 1
          /\ a = TerminalRank =>
               /\ task'[f] = task[f]
               /\ osi_img'[f] = osi_img[f]
               /\ img_writes'[f] = img_writes[f]
  /\ \A f \in TxtFiles :
       LET a == TxtRank(txt_status[f].st, pc)
           b == TxtRank(txt_status'[f].st, pc')
       IN /\ StageStep(a, b)
          /\ Len(osi_text'[f]) <= 1
          /\ a = TerminalRank =>
               /\ txt_status'[f] = txt_status[f]
               /\ osi_text'[f] = osi_text[f]
               /\ txt_writes'[f] = txt_writes[f]

C13_StageOrder == [][C13_Step]_vars

C13_Witness ==
  /\ RunOver
  /\ \E f, g \in ImgFiles :
       /\ Committed(f) /\ Len(task[f].calls) = 2
       /\ task[g].pc = "returned" /\ task[g].err = "ingest"
  /\ \E f \in TxtFiles : txt_status[f].st = "returned"

(* C14: the extractor is called with the entity prompt and then with the   *)
(* description prompt, never more than twice; an artifact that passed       *)
(* extraction has made exactly these two calls, the text that is embedded   *)
(* and the record's file_text are the entity answer followed by the         *)
(* description, and metadata.entities is the entity answer; when the first  *)
(* call raises no second call and no later stage is executed.               *)
C14_ImageRecordComposition ==
  \A f \in ImgFiles :
    LET t == task[f]
        text == t.calls[1].r.value \o t.calls[2].r.value
    IN /\ Len(t.calls) <= 2
       /\ Len(t.calls) >= 1 => t.calls[1].prompt = ENTITY_PROMPT
       /\ Len(t.calls) = 2 =>
            ~ t.calls[1].r.raised /\ t.calls[2].prompt = DESC_PROMPT
       /\ (ImgRank(t) \in 4..7 \/ t.err \in {"embed", "assemble", "persist", "ingest"}
              \/ Committed(f))
            => Len(t.calls) = 2 /\ ~ t.calls[2].r.raised
       /\ t.prompt_data # None => t.prompt_data = Some(text)
       /\ t.data # None =>
            /\ t.data[1].file_text = text
            /\ t.data[1].metadata.entities = t.calls[1].r.value
       /\ \A i \in DOMAIN osi_img[f] :
            /\ osi_img[f][i].body.file_text = text
            /\ osi_img[f][i].body.metadata.entities = t.calls[1].r.value
       /\ (Len(t.calls) >= 1 /\ t.calls[1].r.raised) =>
            /\ Len(t.calls) = 1
            /\ t.pc = "returned" /\ t.err = "extract"
            /\ t.prompt_data = None /\ t.data = None
            /\ JsonPath(f) \notin DOMAIN json_img_dir
            /\ osi_img[f] = <<>>

C14_Witness ==
  \E f, g \in ImgFiles :
    /\ Committed(f)
    /\ task[f].prompt_data = Some(<<"E", "D">>)
    /\ osi_img[f][1].body.file_text = <<"E", "D">>
    /\ osi_img[f][1].body.metadata.entities = <<"E">>
    /\ Len(task[g].calls) = 1 /\ task[g].calls[1].r.raised

(* C15: the image tasks that were started and have not terminated are at   *)
(* most parallel_inference_count and belong to one chunk; at most one text  *)
(* file is in progress.                                                     *)
Running == {f \in ImgFiles : task[f].pc \notin Terminated \cup {"unstarted"}}

Written(files, writes) == {f \in files : writes[f] >= 1}

C16_NoWriteContention ==
  /\ \A f \in Written(ImgFiles, img_writes) :
       /\ img_writes[f] = 1
       /\ JsonPath(f) \in DOMAIN json_img_dir
       /\ json_img_dir[JsonPath(f)].file_name = ImgObjName(f)
  /\ Cardinality(DOMAIN json_img_dir) = Cardinality(Written(ImgFiles, img_writes))
  /\ \A f \in Written(TxtFiles, txt_writes) :
       /\ txt_writes[f] = 1
       /\ JsonPath(f) \in DOMAIN json_txt_dir
       /\ json_txt_dir[JsonPath(f)].file_name = Stem(f)
  /\ Cardinality(DOMAIN json_txt_dir) = Cardinality(Written(TxtFiles, txt_writes))

C16_Witness ==
  /\ n = 2
  /\ pc # "image_chunks"
  /\ \E f, g \in ImgFiles :
       /\ f # g /\ ChunkOf(f) = ChunkOf(g)
       /\ img_writes[f] = 1 /\ img_writes[g] = 1
       /\ Cardinality(DOMAIN json_img_dir) = 2
  /\ \E f \in TxtFiles : txt_writes[f] = 1

(* C17: every run reaches its end with every image artifact and every text *)
(* artifact Committed or Failed, none left Pending or in progress.          *)
AllSettled ==
  /\ \A f \in ImgFiles : task[f].pc \in Terminated
  /\ \A f \in TxtFiles : txt_status[f].st \in {"returned", "raised"}

C17_EventuallySettled == <>(RunOver /\ AllSettled)

(* C18: for every artifact with an audit file and a POST, the page_number   *)
(* of the POST body and the page_number of the audit file denote the same   *)
(* number (image and text).                                                 *)
C18_PageNumbersAgree ==
  /\ \A f \in ImgFiles : \A i \in DOMAIN osi_img[f] :
       JsonPath(f) \in DOMAIN json_img_dir =>
         PageValue(osi_img[f][i].body.page_number)
           = PageValue(json_img_dir[JsonPath(f)].page_number)
  /\ \A f \in TxtFiles : \A i \in DOMAIN osi_text[f] :
       JsonPath(f) \in DOMAIN json_txt_dir =>
         PageValue(osi_text[f][i].body.page_number)
           = PageValue(json_txt_dir[JsonPath(f)].page_number)

PostReturned(f) == Len(osi_img[f]) = 1 /\ osi_img[f][1].outcome = "ok"

FailedBeforeIngest(f) ==
  task[f].err \in {"client", "extract", "embed", "assemble"}

(* C20 as stated: when the task of an image artifact is over, its audit     *)
(* file exists iff the artifact passed extraction and page-number parsing;  *)
(* the task returned a non-null result iff its POST returned without        *)
(* raising; an artifact that failed before the ingest stage wrote nothing.  *)
C20_AuditIffParsed ==
  \A f \in ImgFiles :
    /\ task[f].pc \in Terminated =>
         /\ JsonPath(f) \in DOMAIN json_img_dir <=> task[f].data # None
         /\ (task[f].pc = "returned" /\ task[f].json_data # None) <=> PostReturned(f)
    /\ FailedBeforeIngest(f) =>
         img_writes[f] = 0 /\ JsonPath(f) \notin DOMAIN json_img_dir

(* C20 amended: when the task of an image artifact is over, its audit file  *)
(* exists iff the artifact passed extraction, page-number parsing and the   *)
(* local write itself, that is iff its POST was attempted; the task         *)
(* returned a non-null result iff its POST returned without raising; an     *)
(* artifact that failed before the POST was attempted wrote nothing.        *)
C20_AuditIffWritten ==
  \A f \in ImgFiles :
    /\ task[f].pc \in Terminated =>
         /\ JsonPath(f) \in DOMAIN json_img_dir
              <=> (task[f].data # None /\ task[f].err # "persist")
         /\ JsonPath(f) \in DOMAIN json_img_dir <=> Len(osi_img[f]) = 1
         /\ (task[f].pc = "returned" /\ task[f].json_data # None) <=> PostReturned(f)
    /\ (FailedBeforeIngest(f) \/ task[f].err = "persist") =>
         img_writes[f] = 0 /\ JsonPath(f) \notin DOMAIN json_img_dir

C20_Witness ==
  /\ ImgLoopOver
  /\ \E f, g \in ImgFiles :
       /\ task[f].err = "persist" /\ task[f].data # None
       /\ JsonPath(f) \notin DOMAIN json_img_dir
       /\ task[g].err = "ingest" /\ task[g].json_data = None
       /\ JsonPath(g) \in DOMAIN json_img_dir

(* the strings of the named-entity subtrees of the input, and where each  *)
(* occurs first                                                            *)
EntityStrings(chunked) ==
  {JoinSpace(<<chunked[k].leaves>>) : k \in {j \in DOMAIN chunked : chunked[j].tree}}

FirstOccurrence(chunked, e) ==
  Min({k \in DOMAIN chunked : chunked[k].tree /\ JoinSpace(<<chunked[k].leaves>>) = e})

NoDuplicates(l) == \A a, b \in DOMAIN l : a # b => l[a] # l[b]

(* C11: the returned list has no duplicates, the entities in it are in the  *)
(* order of their first occurrence in the input, and a second run on the    *)
(* same input returns the same list.                                        *)
C11_OrderedDedup ==
  gcc.ret # None =>
    LET r == gcc.ret[1]
        E == EntityStrings(gcc.chunked)
    IN /\ NoDuplicates(r)
       /\ \A a, b \in DOMAIN r :
            (r[a] \in E /\ r[b] \in E /\
             FirstOccurrence(gcc.chunked, r[a]) < FirstOccurrence(gcc.chunked, r[b]))
              => a < b
       /\ gcc.prev # None => gcc.ret = gcc.prev

(* C19: every returned string is the space-joined leaves of one named-      *)
(* entity subtree of the input.                                             *)
C19_OneEntityPerString ==
  gcc.ret # None => \A a \in DOMAIN gcc.ret[1] :
                      gcc.ret[1][a] \in EntityStrings(gcc.chunked)

====
